---- MODULE Spec2Model ----
(***************************************************************************)
(* Model of the asynchronous analysis pipeline of securecode-ai:           *)
(*   - the ConnectionManager and the websocket session handler             *)
(*     (backend/api/routers/websocket.py),                                 *)
(*   - the stream worker (backend/workers/stream_processor.py) and the     *)
(*     Redis stream / consumer group / key store it talks to,              *)
(*   - the pattern + classifier detection function                         *)
(*     (backend/api/routers/analysis.py, backend/ml_service).              *)
(***************************************************************************)
EXTENDS Integers, Sequences, FiniteSets, TLC

(***************************************************************************)
(* Bounds of the model.                                                    *)
(***************************************************************************)
MaxHandles == 2
MaxBroadcasts == 1
MaxInbound == 2

Handles == 1..MaxHandles
Clients == {1, 2}

(* results of next() on the set iterator that are not a handle *)
StopIteration == 0
RuntimeError == -1

(***************************************************************************)
(* A Python dict (insertion ordered) as a sequence of [k, v] items.        *)
(***************************************************************************)
Keys(d) == {d[i].k : i \in DOMAIN d}
Has(d, c) == \E i \in DOMAIN d : d[i].k = c
Get(d, c) == d[CHOOSE i \in DOMAIN d : d[i].k = c].v
Put(d, c, s) ==
    IF Has(d, c)
    THEN [i \in DOMAIN d |-> IF d[i].k = c THEN [k |-> c, v |-> s] ELSE d[i]]
    ELSE Append(d, [k |-> c, v |-> s])
Del(d, c) == SelectSeq(d, LAMBDA e : e.k # c)
KeyList(d) == [i \in DOMAIN d |-> d[i].k]

(***************************************************************************)
(* Messages sent to a session: a type discriminator and the id it carries  *)
(* (client_id, timestamp or analysis_id).                                  *)
(***************************************************************************)
Msg(t, x) == [type |-> t, id |-> x]

VARIABLES
    active_connections,  \* ConnectionManager.active_connections
    ws,                  \* per handle: position of websocket_endpoint, client_id
    alive,               \* per handle: the transport still accepts sends
    outbox,              \* per handle: messages delivered to the peer, in order
    bc,                  \* the running broadcast_to_client / broadcast_to_all task
    nbc,                 \* number of broadcast calls made so far
    stream,              \* code_analysis_stream: the entries, in id order
    group,               \* analysis_workers: exists, last delivered id, pending list
    store,               \* the Redis keys set with setex: [ns, id, val]
    redis_ok,            \* the Redis server answers
    wk,                  \* per worker: position in main, batch being iterated
    delivered,           \* history: [id, consumer] for every delivery of xreadgroup
    written,             \* history: [id, by] for every setex of a worker
    request,             \* the request detect_simple_vulnerabilities is called on
    results,             \* what each call on the request returned, in call order
    uuids,               \* number of uuid.uuid4() values drawn so far
    gateway              \* the HTTP endpoints: the realtime request being served,
                         \* the file requests so far, the last result lookup

cmvars == <<active_connections, ws, alive, outbox, bc, nbc>>
wvars == <<stream, group, store, redis_ok, wk, delivered, written>>
dvars == <<request, results, uuids, gateway>>
vars == <<active_connections, ws, alive, outbox, bc, nbc,
          stream, group, store, redis_ok, wk, delivered, written,
          request, results, uuids, gateway>>

BcIdle ==
    [pc |-> "idle", all |-> FALSE, keys |-> <<>>, cid |-> 0, msg |-> Msg("none", 0),
     used |-> 0, start |-> {}, seen |-> {}, cur |-> 0, disconnected |-> {},
     detached |-> FALSE]

(***************************************************************************)
(* ConnectionManager.connect, after the accept: the registry update.       *)
(***************************************************************************)
connect(d, h, c) ==
    Put(d, c, (IF Has(d, c) THEN Get(d, c) ELSE {}) \cup {h})

DisconnectForgets(d, h, c) == d

(***************************************************************************)
(* ConnectionManager.disconnect.                                           *)
(***************************************************************************)
disconnect(d, h, c) ==
    IF Has(d, c)
    THEN LET s == Get(d, c) \ {h}
         IN  IF s = {} THEN Del(d, c) ELSE Put(d, c, s)
    ELSE d

(***************************************************************************)
(* The pruning loop that ends broadcast_to_client:                         *)
(*   for conn in disconnected: active_connections[client_id].discard(conn) *)
(* The entry is kept even when its set becomes empty.                      *)
(***************************************************************************)
PruneDisconnected(d, c, disc) ==
    IF disc = {} THEN d ELSE Put(d, c, Get(d, c) \ disc)

(***************************************************************************)
(* The set object the broadcast iterates: the one that was under the key   *)
(* when the loop started.  Once disconnect has deleted the key, that       *)
(* object is empty and no longer reachable from the dict.                  *)
(***************************************************************************)
IteratedSet(b, d) == IF b.detached \/ ~Has(d, b.cid) THEN {} ELSE Get(d, b.cid)

(***************************************************************************)
(* next() on the set iterator: RuntimeError when the set changed size,     *)
(* otherwise an element not yet visited, or StopIteration.  When the set   *)
(* was mutated but has its old size, elements may be skipped.              *)
(***************************************************************************)
IterNext(b, d) ==
    LET S == IteratedSet(b, d)
    IN  IF Cardinality(S) # b.used THEN {RuntimeError}
        ELSE IF S = b.start
             THEN (IF S \ b.seen = {} THEN {StopIteration} ELSE S \ b.seen)
             ELSE (S \ b.seen) \cup {StopIteration}


(***************************************************************************)
(* send_json on a handle: delivered when the transport is alive, an        *)
(* exception otherwise.                                                    *)
(***************************************************************************)
SendOk(h) == alive[h]
Deliver(ob, h, m) == [ob EXCEPT ![h] = Append(@, m)]

(***************************************************************************)
(* broadcast_to_client up to its first suspension, for the first key of    *)
(* ks that is in the dict with a non-empty set (for the other keys the     *)
(* call returns without a send and without a change): the iterator is      *)
(* created and the first element is being sent to.                         *)
(***************************************************************************)
Sendable(d, c) == Has(d, c) /\ Get(d, c) # {}
FirstSendable(d, ks) ==
    IF \E i \in DOMAIN ks : Sendable(d, ks[i])
    THEN CHOOSE i \in DOMAIN ks :
            Sendable(d, ks[i]) /\ \A j \in 1..(i - 1) : ~Sendable(d, ks[j])
    ELSE 0

BcFirst(d, ks) ==
    IF FirstSendable(d, ks) = 0 THEN {} ELSE Get(d, ks[FirstSendable(d, ks)])

BcEnter(b, d, ks, conn) ==
    LET i == FirstSendable(d, ks)
        S == Get(d, ks[i])
    IN  [b EXCEPT !.pc = "sending", !.keys = SubSeq(ks, i + 1, Len(ks)),
                  !.cid = ks[i], !.used = Cardinality(S), !.start = S,
                  !.seen = {conn}, !.cur = conn, !.disconnected = {},
                  !.detached = FALSE]

(***************************************************************************)
(* broadcast_to_client(message, client_id) is called.                      *)
(***************************************************************************)
BroadcastToClient(c, m) ==
    /\ bc.pc # "sending"
    /\ m = Msg("broadcast", nbc + 1)
    /\ nbc < MaxBroadcasts
    /\ nbc' = nbc + 1
    /\ LET b0 == [BcIdle EXCEPT !.msg = m, !.cid = c]
       IN  IF BcFirst(active_connections, <<c>>) = {}
           THEN bc' = [b0 EXCEPT !.pc = "done"]
           ELSE \E conn \in BcFirst(active_connections, <<c>>) :
                    bc' = BcEnter(b0, active_connections, <<c>>, conn)
    /\ UNCHANGED <<active_connections, ws, alive, outbox>>
    /\ UNCHANGED <<wvars, dvars>>

(***************************************************************************)
(* broadcast_to_all(message) is called: the keys are snapshotted.          *)
(***************************************************************************)
BroadcastToAll(m) ==
    /\ bc.pc # "sending"
    /\ m = Msg("broadcast", nbc + 1)
    /\ nbc < MaxBroadcasts
    /\ nbc' = nbc + 1
    /\ LET b0 == [BcIdle EXCEPT !.msg = m, !.all = TRUE]
           ks == KeyList(active_connections)
       IN  IF BcFirst(active_connections, ks) = {}
           THEN bc' = [b0 EXCEPT !.pc = "done"]
           ELSE \E conn \in BcFirst(active_connections, ks) :
                    bc' = BcEnter(b0, active_connections, ks, conn)
    /\ UNCHANGED <<active_connections, ws, alive, outbox>>
    /\ UNCHANGED <<wvars, dvars>>

OnSendFailureForgets(b) == b

(***************************************************************************)
(* The except clause of the send in broadcast_to_client: the handle is     *)
(* recorded and the loop goes on.                                          *)
(***************************************************************************)
OnSendFailure(b) == [b EXCEPT !.disconnected = @ \cup {b.cur}]

(* the exception leaves broadcast_to_client, and broadcast_to_all with it:  *)
(* the task is over and its locals are gone                                *)
Crashed(b) == [BcIdle EXCEPT !.pc = "crashed", !.all = b.all, !.cid = b.cid,
                             !.msg = b.msg]

(***************************************************************************)
(* The pending send of the broadcast completes, and the loop runs to its   *)
(* next suspension: next() on the iterator, then either the next send, or  *)
(* the pruning and the return (and, for broadcast_to_all, the next key).   *)
(***************************************************************************)
BroadcastStep ==
    /\ bc.pc = "sending"
    /\ LET ok == SendOk(bc.cur)
           b1 == IF ok THEN bc ELSE OnSendFailure(bc)
       IN  /\ outbox' = IF ok THEN Deliver(outbox, bc.cur, bc.msg) ELSE outbox
           /\ \E r \in IterNext(b1, active_connections) :
                IF r = RuntimeError
                THEN /\ bc' = Crashed(b1)
                     /\ UNCHANGED active_connections
                ELSE IF r # StopIteration
                THEN /\ bc' = [b1 EXCEPT !.cur = r, !.seen = @ \cup {r}]
                     /\ UNCHANGED active_connections
                ELSE IF b1.disconnected # {} /\ ~Has(active_connections, b1.cid)
                THEN /\ bc' = Crashed(b1)   \* KeyError
                     /\ UNCHANGED active_connections
                ELSE LET d1 == PruneDisconnected(active_connections, b1.cid,
                                                 b1.disconnected)
                     IN  /\ active_connections' = d1
                         /\ IF BcFirst(d1, b1.keys) = {}
                            THEN bc' = [b1 EXCEPT !.pc = "done", !.cur = 0,
                                                  !.keys = <<>>, !.used = 0]
                            ELSE \E conn \in BcFirst(d1, b1.keys) :
                                     bc' = BcEnter(b1, d1, b1.keys, conn)
    /\ UNCHANGED <<ws, alive, nbc>>
    /\ UNCHANGED <<wvars, dvars>>


(***************************************************************************)
(* websocket_endpoint, one task per handle.                                *)
(***************************************************************************)
AnalysisIds == {1, 2}
InboundKinds == {"ping", "analyze", "other", "garbage"}

(* left: the inbound messages the peer has yet to send *)
WsNew(n) == [pc |-> "new", cid |-> 0, left |-> n, aid |-> 0]

(* the except clauses of websocket_endpoint: manager.disconnect, and the    *)
(* handler returns; the server closes the transport                         *)
EndSession(h) ==
    /\ active_connections' = disconnect(active_connections, h, ws[h].cid)
    /\ ws' = [ws EXCEPT ![h].pc = "ended"]
    /\ alive' = [alive EXCEPT ![h] = FALSE]
    /\ bc' = IF /\ bc.pc = "sending"
                /\ bc.cid = ws[h].cid
                /\ ~bc.detached
                /\ Has(active_connections, bc.cid)
                /\ ~Has(disconnect(active_connections, h, ws[h].cid), bc.cid)
             THEN [bc EXCEPT !.detached = TRUE]
             ELSE bc

SendPersonalPrunes(d, h) == [i \in DOMAIN d |-> [d[i] EXCEPT !.v = @ \ {h}]]

(* ConnectionManager.send_personal_message: the registry after the call,   *)
(* which only does websocket.send_json                                     *)
send_personal_message(d, h) == d

(* a send of the handler: delivered, or the exception ends the session *)
WsSend(h, m, nextpc) ==
    IF SendOk(h)
    THEN /\ outbox' = Deliver(outbox, h, m)
         /\ ws' = [ws EXCEPT ![h].pc = nextpc]
         /\ active_connections' = send_personal_message(active_connections, h)
         /\ UNCHANGED <<alive, bc>>
    ELSE /\ EndSession(h)
         /\ UNCHANGED outbox

(* await manager.connect(websocket, client_id) *)
WsConnect(h, c) ==
    /\ ws[h].pc = "new"
    /\ IF alive[h]
       THEN /\ active_connections' = connect(active_connections, h, c)
            /\ ws' = [ws EXCEPT ![h].pc = "welcome", ![h].cid = c]
       ELSE /\ ws' = [ws EXCEPT ![h].pc = "ended", ![h].cid = c]
            /\ UNCHANGED active_connections
    /\ UNCHANGED <<alive, outbox, bc, nbc>>
    /\ UNCHANGED <<wvars, dvars>>

(* the welcome message *)
WsWelcome(h) ==
    /\ ws[h].pc = "welcome"
    /\ WsSend(h, Msg("connection", ws[h].cid), "receive")
    /\ UNCHANGED nbc
    /\ UNCHANGED <<wvars, dvars>>

(* data = await websocket.receive_text(); message = json.loads(data) *)
WsReceive(h) ==
    /\ ws[h].pc = "receive"
    /\ IF ~alive[h]
       THEN EndSession(h) /\ UNCHANGED outbox
       ELSE /\ ws[h].left > 0
            /\ \E kind \in InboundKinds, x \in AnalysisIds :
                 IF kind = "garbage"
                 THEN EndSession(h) /\ UNCHANGED outbox
                 ELSE /\ ws' = [ws EXCEPT ![h].left = @ - 1,
                                          ![h].aid = IF kind = "other" THEN 0 ELSE x,
                                          ![h].pc = CASE kind = "ping" -> "pong"
                                                      [] kind = "analyze" -> "queued"
                                                      [] OTHER -> "receive"]
                      /\ UNCHANGED <<active_connections, alive, outbox, bc>>
    /\ UNCHANGED nbc
    /\ UNCHANGED <<wvars, dvars>>

WsPong(h) ==
    /\ ws[h].pc = "pong"
    /\ WsSend(h, Msg("pong", ws[h].aid), "receive")
    /\ UNCHANGED nbc
    /\ UNCHANGED <<wvars, dvars>>

WsQueuedThenReceive(h) ==
    /\ ws[h].pc = "queued"
    /\ WsSend(h, Msg("analysis_queued", ws[h].aid), "receive")
    /\ UNCHANGED nbc
    /\ UNCHANGED <<wvars, dvars>>

(* the analyze branch: analysis_queued, then asyncio.sleep(0.5) *)
WsQueued(h) ==
    /\ ws[h].pc = "queued"
    /\ WsSend(h, Msg("analysis_queued", ws[h].aid), "sleep")
    /\ UNCHANGED nbc
    /\ UNCHANGED <<wvars, dvars>>

(* after asyncio.sleep(0.5) *)
WsResult(h) ==
    /\ ws[h].pc = "sleep"
    /\ WsSend(h, Msg("analysis_result", ws[h].aid), "receive")
    /\ UNCHANGED nbc
    /\ UNCHANGED <<wvars, dvars>>

(* the peer closes, or the network drops the connection *)
Drop(h) ==
    /\ alive[h]
    /\ ws[h].pc # "ended"
    /\ alive' = [alive EXCEPT ![h] = FALSE]
    /\ UNCHANGED <<active_connections, ws, outbox, bc, nbc>>
    /\ UNCHANGED <<wvars, dvars>>

(***************************************************************************)
(* detect_simple_vulnerabilities (analysis.py) and VulnerabilityDetector    *)
(* (model_loader.py).                                                       *)
(*                                                                          *)
(* Text: a code is the sequence of its lines (code.split('\n'), so at least *)
(* one line), a line is a sequence of atoms, and an atom is a piece of text *)
(* of which AtomInfo gives the length, the lower-cased patterns that occur  *)
(* in its lower-cased text, the position of each pattern that occurs in it  *)
(* as written, and the punctuation that occurs in it.  No pattern straddles *)
(* two atoms.  Confidences are in percent.                                  *)
(***************************************************************************)
sql_patterns == <<"execute(", "cursor.execute(", ".query(", "SELECT * FROM">>
xss_patterns == <<"innerHTML =", "document.write(", "eval(">>
secret_patterns == <<"password =", "api_key =", "secret =", "token =">>

(* pattern.lower() *)
Lower(p) ==
    CASE p = "SELECT * FROM" -> "select * from"
      [] p = "innerHTML =" -> "innerhtml ="
      [] OTHER -> p

AtomInfo(a) ==
    CASE a = "cursor.execute(" ->
            [len |-> 15, low |-> {"execute(", "cursor.execute("},
             at |-> {<<"execute(", 7>>, <<"cursor.execute(", 0>>}, chars |-> {}]
      [] a = "SELECT * FROM t" ->
            [len |-> 15, low |-> {"select * from"},
             at |-> {<<"SELECT * FROM", 0>>}, chars |-> {}]
      [] a = "select * from t" ->
            [len |-> 15, low |-> {"select * from"}, at |-> {}, chars |-> {}]
      [] a = " + " ->
            [len |-> 3, low |-> {}, at |-> {}, chars |-> {"+"}]
      [] a = "innerHTML =" ->
            [len |-> 11, low |-> {"innerhtml ="},
             at |-> {<<"innerHTML =", 0>>}, chars |-> {"="}]
      [] a = "eval(" ->
            [len |-> 5, low |-> {"eval("}, at |-> {<<"eval(", 0>>}, chars |-> {}]
      [] a = "password = " ->
            [len |-> 11, low |-> {"password ="},
             at |-> {<<"password =", 0>>}, chars |-> {"="}]
      [] a = "PASSWORD = " ->
            [len |-> 11, low |-> {"password ="}, at |-> {}, chars |-> {"="}]
      [] a = "\"abc123\"" ->
            [len |-> 8, low |-> {}, at |-> {}, chars |-> {"\""}]
      [] a = " " ->
            [len |-> 1, low |-> {}, at |-> {}, chars |-> {}]
      [] OTHER ->
            [len |-> 1, low |-> {}, at |-> {}, chars |-> {}]

(* pattern.lower() in line_lower *)
LowIn(p, line) == \E i \in DOMAIN line : Lower(p) \in AtomInfo(line[i]).low
(* '<char>' in line *)
CharIn(ch, line) == \E i \in DOMAIN line : ch \in AtomInfo(line[i]).chars

RECURSIVE TextLen(_)
TextLen(line) ==
    IF line = <<>> THEN 0 ELSE AtomInfo(Head(line)).len + TextLen(Tail(line))

(* line.find(pattern): case sensitive, -1 when the pattern does not occur *)
Find(p, line) ==
    LET hit(i) == \E off \in 0..15 : <<p, off>> \in AtomInfo(line[i]).at
    IN  IF \E i \in DOMAIN line : hit(i)
        THEN LET i == CHOOSE j \in DOMAIN line :
                          hit(j) /\ \A k \in 1..(j - 1) : ~hit(k)
                 off == CHOOSE o \in 0..15 : <<p, o>> \in AtomInfo(line[i]).at
             IN  TextLen(SubSeq(line, 1, i - 1)) + off
        ELSE -1

(* line.strip() *)
RECURSIVE LStrip(_)
LStrip(line) ==
    IF line # <<>> /\ Head(line) = " " THEN LStrip(Tail(line)) ELSE line
RECURSIVE RStrip(_)
RStrip(line) ==
    IF line # <<>> /\ line[Len(line)] = " "
    THEN RStrip(SubSeq(line, 1, Len(line) - 1))
    ELSE line
Strip(line) == LStrip(RStrip(line))

(* the text of the message of a finding *)
MsgText(text, category, percent) ==
    [text |-> text, category |-> category, percent |-> percent]

Vulnerability(id, category, severity, ln, col, message, snippet, conf) ==
    [id |-> id, category |-> category, severity |-> severity, line_number |-> ln,
     column_number |-> col, message |-> message, code_snippet |-> snippet,
     confidence_score |-> conf]

SqlCondNoConcat(p, line) == LowIn(p, line)

(* the secondary condition of each family of patterns *)
SqlCond(p, line) == LowIn(p, line) /\ CharIn("+", line)
XssCond(p, line) == LowIn(p, line)
SecretCond(p, line) ==
    /\ LowIn(p, line)
    /\ (CharIn("=", line) \/ CharIn(":", line))
    /\ (CharIn("\"", line) \/ CharIn("'", line))

(* the findings of one line, in the order of the three loops; ids are left  *)
(* to be numbered by the caller                                             *)
LineFindings(line, ln) ==
    LET sql == SelectSeq(sql_patterns, LAMBDA p : SqlCond(p, line))
        xss == SelectSeq(xss_patterns, LAMBDA p : XssCond(p, line))
        sec == SelectSeq(secret_patterns, LAMBDA p : SecretCond(p, line))
    IN  [i \in 1..Len(sql) |->
            Vulnerability(0, "SQL Injection", "CRITICAL", ln, Find(sql[i], line),
                MsgText("Possible SQL injection: String concatenation in SQL query",
                        "", 0),
                Strip(line), 75)]
        \o
        [i \in 1..Len(xss) |->
            Vulnerability(0, "Cross-Site Scripting (XSS)", "HIGH", ln,
                Find(xss[i], line),
                MsgText("Possible XSS vulnerability: Unsafe HTML manipulation",
                        "", 0),
                Strip(line), 68)]
        \o
        [i \in 1..Len(sec) |->
            Vulnerability(0, "Hardcoded Secrets", "HIGH", ln, Find(sec[i], line),
                MsgText("Hardcoded secret detected: Use environment variables instead",
                        "", 0),
                Strip(line), 82)]

RECURSIVE PatternFindingsSameLine(_, _)
PatternFindingsSameLine(lines, ln) ==
    IF lines = <<>> THEN <<>>
    ELSE LineFindings(Head(lines), ln) \o PatternFindingsSameLine(Tail(lines), ln)

(* the loop over the lines, numbered from 1 *)
RECURSIVE PatternFindings(_, _)
PatternFindings(lines, ln) ==
    IF lines = <<>> THEN <<>>
    ELSE LineFindings(Head(lines), ln) \o PatternFindings(Tail(lines), ln + 1)

(* VulnerabilityDetector.vulnerability_labels *)
vulnerability_labels ==
    <<"SQL Injection", "Cross-Site Scripting (XSS)", "Hardcoded Secrets",
      "Path Traversal", "Command Injection", "Insecure Deserialization",
      "SSRF", "XXE", "Buffer Overflow", "Race Condition">>

(* VulnerabilityDetector._get_severity *)
GetSeverity(category) ==
    IF category \in {"SQL Injection", "Command Injection", "Buffer Overflow"}
    THEN "CRITICAL"
    ELSE IF category \in {"Cross-Site Scripting (XSS)", "Path Traversal",
                          "Insecure Deserialization", "SSRF", "XXE"}
    THEN "HIGH"
    ELSE "MEDIUM"

PredictIgnoresFailure(clf, threshold) ==
    <<[category |-> "Path Traversal", confidence |-> 70, severity |-> "HIGH"]>>

(* VulnerabilityDetector.predict: clf is the classifier snapshot, loaded     *)
(* (model and tokenizer are not None), raising or not, with the sigmoid      *)
(* scores in percent of its output row on this code (ten of them when the    *)
(* model has the ten labels it was configured with)                          *)
Predict(clf, threshold) ==
    IF ~clf.loaded \/ clf.raises THEN <<>>
    ELSE LET idx == SelectSeq([i \in 1..Len(clf.scores) |-> i],
                              LAMBDA i : clf.scores[i] > threshold)
         IN  IF \E k \in DOMAIN idx : idx[k] > Len(vulnerability_labels)
             THEN <<>>   \* IndexError on vulnerability_labels[idx], caught
             ELSE [k \in 1..Len(idx) |->
                    [category |-> vulnerability_labels[idx[k]],
                     confidence |-> clf.scores[idx[k]],
                     severity |-> GetSeverity(vulnerability_labels[idx[k]])]]

(* the text of a code, its lines joined by newlines, and code[:100] + "..." *)
RECURSIVE Joined(_)
Joined(lines) ==
    IF Len(lines) = 1 THEN Head(lines)
    ELSE Head(lines) \o <<"\n">> \o Joined(Tail(lines))
RECURSIVE TakeText(_, _)
TakeText(text, n) ==
    IF text = <<>> \/ AtomInfo(Head(text)).len > n THEN <<>>
    ELSE <<Head(text)>> \o TakeText(Tail(text), n - AtomInfo(Head(text)).len)
Snippet(code) ==
    IF TextLen(Joined(code)) > 100
    THEN TakeText(Joined(code), 100) \o <<"...">>
    ELSE Joined(code)

MergeKeepsAll(vulns, preds, code) ==
    vulns \o [i \in 1..Len(preds) |->
                Vulnerability(0, preds[i].category, preds[i].severity, 1, 0,
                    MsgText("ML Model detected", preds[i].category,
                            preds[i].confidence),
                    Snippet(code), preds[i].confidence)]

(* the loop over ml_predictions: a prediction is dropped when a finding of  *)
(* its category is already in the list                                     *)
RECURSIVE MergePredictions(_, _, _)
MergePredictions(vulns, preds, code) ==
    IF preds = <<>> THEN vulns
    ELSE LET pred == Head(preds)
             is_duplicate ==
                 \E i \in DOMAIN vulns : vulns[i].category = pred.category
         IN  MergePredictions(
                 IF is_duplicate THEN vulns
                 ELSE Append(vulns,
                        Vulnerability(0, pred.category, pred.severity, 1, 0,
                            MsgText("ML Model detected", pred.category,
                                    pred.confidence),
                            Snippet(code), pred.confidence)),
                 Tail(preds), code)

DetectModelFirst(code, language, ml_available, clf) ==
    IF ml_available
    THEN MergePredictions(<<>>, Predict(clf, 60), code) \o PatternFindings(code, 1)
    ELSE PatternFindings(code, 1)

(* detect_simple_vulnerabilities(code, language): the findings, their ids   *)
(* left unnumbered                                                          *)
DetectFindings(code, language, ml_available, clf) ==
    LET pat == PatternFindings(code, 1)
    IN  IF ml_available THEN MergePredictions(pat, Predict(clf, 60), code) ELSE pat

(* uuid.uuid4() for the id of each finding: fresh ids, numbered from uuid0 *)
Detect(code, language, ml_available, clf, uuid0) ==
    LET f == DetectFindings(code, language, ml_available, clf)
    IN  [i \in 1..Len(f) |-> [f[i] EXCEPT !.id = uuid0 + i]]

(***************************************************************************)
(* The stream worker (stream_processor.py), the Redis stream               *)
(* code_analysis_stream with its consumer group analysis_workers, and the  *)
(* keys set with setex.                                                    *)
(***************************************************************************)
NumWorkers == 2
MaxEntries == 2
XReadCount == 10

Workers == 1..NumWorkers

CleanCode == << <<"x">> >>
SqliCode == << <<"cursor.execute(", "\"abc123\"", " + ", "x">> >>
CodeSamples == {CleanCode, SqliCode}

(* the classifier of this deployment: the import of the ML service failed *)
NoClassifier == [loaded |-> FALSE, raises |-> FALSE,
                 scores |-> [i \in 1..10 |-> 0]]

WkNew == [pc |-> "start", batch |-> <<>>, exc |-> "none"]

Min(a, b) == IF a < b THEN a ELSE b

(* the ids xreadgroup gives a consumer that asks for '>': the entries never *)
(* delivered to any consumer of the group, at most count of them            *)
NewEntries(g, st) ==
    [i \in 1..Min(Len(st) - g.last_delivered, XReadCount) |-> g.last_delivered + i]

(* the pending list of the group after the delivery of ids to consumer w *)
AddPending(pel, ids, w) ==
    pel \cup {[id |-> ids[i], consumer |-> w] : i \in DOMAIN ids}

DeliveriesNotAdvancing(g, ids, w) == [g EXCEPT !.pel = AddPending(@, ids, w)]

(* the group after xreadgroup delivered ids to consumer w: the ids are      *)
(* pending for w and the last delivered id has moved past them              *)
Deliveries(g, ids, w) ==
    [g EXCEPT !.last_delivered = @ + Len(ids), !.pel = AddPending(@, ids, w)]

(* redis_client.setex(key, ttl, value) *)
SetEx(st, ns, id, val) ==
    {r \in st : ~(r.ns = ns /\ r.id = id)} \cup {[ns |-> ns, id |-> id, val |-> val]}

(* the result process_code_analysis stores *)
ResultOf(message_data) ==
    [analysis_id |-> message_data.analysis_id, status |-> "completed",
     vulnerabilities_found |-> 0]

OnExceptionLeavesLoop(exc) == "stopped"

(* where main goes when the body of its try raises exc *)
OnException(exc) == IF exc = "KeyboardInterrupt" THEN "stopped" ELSE "sleep"

AfterProcessAlwaysAcks(ok) == "ack"

(* where main goes after process_code_analysis, which returned (ok) or raised *)
AfterProcess(ok) == IF ok THEN "ack" ELSE OnException("ConnectionError")

Raise(w, exc) ==
    wk' = [wk EXCEPT ![w] = [pc |-> OnException(exc), batch |-> <<>>, exc |-> exc]]

(* the ingestion gateway publishes an entry: redis_client.xadd *)
Publish(code) ==
    /\ redis_ok
    /\ Len(stream) < MaxEntries
    /\ stream' = Append(stream, [analysis_id |-> Len(stream) + 1, code |-> code,
                                 language |-> "python"])
    /\ UNCHANGED <<group, store, redis_ok, wk, delivered, written>>
    /\ UNCHANGED <<cmvars, dvars>>

XGroupCreateResets(g) == [exists |-> TRUE, last_delivered |-> 0, pel |-> {}]

(* XGROUP CREATE code_analysis_stream analysis_workers 0 MKSTREAM on the    *)
(* server: a new group at position 0, or BUSYGROUP and no change            *)
xgroup_create(g) ==
    IF g.exists THEN g ELSE [exists |-> TRUE, last_delivered |-> 0, pel |-> {}]

(* redis_client.xgroup_create(..., id='0', mkstream=True) at the start of   *)
(* main: BUSYGROUP is swallowed, any other error ends the process           *)
XGroupCreate(w) ==
    /\ wk[w].pc = "start"
    /\ IF ~redis_ok
       THEN /\ wk' = [wk EXCEPT ![w].pc = "dead", ![w].exc = "ConnectionError"]
            /\ UNCHANGED group
       ELSE /\ wk' = [wk EXCEPT ![w].pc = "read",
                                ![w].exc = IF group.exists THEN "BUSYGROUP"
                                           ELSE "none"]
            /\ group' = xgroup_create(group)
    /\ UNCHANGED <<stream, store, redis_ok, delivered, written>>
    /\ UNCHANGED <<cmvars, dvars>>

(* messages = redis_client.xreadgroup(group, consumer, {stream: '>'},       *)
(*                                    count=10, block=1000)                 *)
XReadGroup(w) ==
    /\ wk[w].pc = "read"
    /\ IF ~redis_ok
       THEN /\ Raise(w, "ConnectionError")
            /\ UNCHANGED <<group, delivered>>
       ELSE LET ids == NewEntries(group, stream)
            IN  /\ group' = Deliveries(group, ids, w)
                /\ delivered' = AddPending(delivered, ids, w)
                /\ wk' = [wk EXCEPT ![w] =
                            [pc |-> IF ids = <<>> THEN "read" ELSE "process",
                             batch |-> ids, exc |-> "none"]]
    /\ UNCHANGED <<stream, store, redis_ok, written>>
    /\ UNCHANGED <<cmvars, dvars>>

(* process_code_analysis(message_data) on the next entry of the batch *)
ProcessCodeAnalysis(w) ==
    /\ wk[w].pc = "process"
    /\ LET id == Head(wk[w].batch)
           message_data == stream[id]
       IN  IF redis_ok
           THEN /\ store' = SetEx(store, "result", message_data.analysis_id,
                                  ResultOf(message_data))
                /\ written' = written \cup {[id |-> message_data.analysis_id, by |-> w]}
                /\ wk' = [wk EXCEPT ![w].pc = AfterProcess(TRUE)]
           ELSE /\ wk' = [wk EXCEPT ![w] =
                            [pc |-> AfterProcess(FALSE),
                             batch |-> IF AfterProcess(FALSE) \in {"sleep", "stopped"}
                                       THEN <<>> ELSE wk[w].batch,
                             exc |-> "ConnectionError"]]
                /\ UNCHANGED <<store, written>>
    /\ UNCHANGED <<stream, group, redis_ok, delivered>>
    /\ UNCHANGED <<cmvars, dvars>>

(* redis_client.xack(stream, group, message_id), then the next entry *)
XAck(w) ==
    /\ wk[w].pc = "ack"
    /\ IF redis_ok
       THEN /\ group' = [group EXCEPT
                           !.pel = {e \in @ : e.id # Head(wk[w].batch)}]
            /\ wk' = [wk EXCEPT ![w].batch = Tail(@),
                                ![w].pc = IF Tail(wk[w].batch) = <<>>
                                          THEN "read" ELSE "process"]
       ELSE /\ Raise(w, "ConnectionError")
            /\ UNCHANGED group
    /\ UNCHANGED <<stream, store, redis_ok, delivered, written>>
    /\ UNCHANGED <<cmvars, dvars>>

(* time.sleep(1) in the except clause, then the loop again *)
Backoff(w) ==
    /\ wk[w].pc = "sleep"
    /\ wk' = [wk EXCEPT ![w].pc = "read", ![w].exc = "none"]
    /\ UNCHANGED <<stream, group, store, redis_ok, delivered, written>>
    /\ UNCHANGED <<cmvars, dvars>>

(* the stop signal: KeyboardInterrupt in the loop *)
KeyboardInterrupt(w) ==
    /\ wk[w].pc \in {"read", "process", "ack", "sleep"}
    /\ Raise(w, "KeyboardInterrupt")
    /\ UNCHANGED <<stream, group, store, redis_ok, delivered, written>>
    /\ UNCHANGED <<cmvars, dvars>>

(* the Redis server becomes unreachable, and reachable again *)
RedisDown ==
    /\ redis_ok
    /\ redis_ok' = FALSE
    /\ UNCHANGED <<stream, group, store, wk, delivered, written>>
    /\ UNCHANGED <<cmvars, dvars>>

RedisUp ==
    /\ ~redis_ok
    /\ redis_ok' = TRUE
    /\ UNCHANGED <<stream, group, store, wk, delivered, written>>
    /\ UNCHANGED <<cmvars, dvars>>

(* a key set with setex reaches its time to live *)
Expire(r) ==
    /\ r \in store
    /\ store' = store \ {r}
    /\ UNCHANGED <<stream, group, redis_ok, wk, delivered, written>>
    /\ UNCHANGED <<cmvars, dvars>>

InitConn ==
    /\ active_connections = <<>>
    /\ alive = [h \in Handles |-> TRUE]
    /\ outbox = [h \in Handles |-> <<>>]
    /\ bc = BcIdle
    /\ nbc = 0

(* no call of detect_simple_vulnerabilities is being followed *)
NoRequest == [code |-> << <<"x">> >>, language |-> "python", ml_available |-> FALSE,
              clf |-> NoClassifier]
(* no HTTP request has been made *)
GwIdle == [pc |-> "idle", analysis_id |-> 0, code |-> << <<"x">> >>, found |-> 0,
           files |-> 0, lookup |-> [id |-> 0, response |-> [status |-> "none"]]]

InitNoRequest ==
    /\ request = NoRequest
    /\ results = <<>>
    /\ uuids = 0
    /\ gateway = GwIdle

InitWorkers ==
    /\ stream = <<>>
    /\ group = [exists |-> FALSE, last_delivered |-> 0, pel |-> {}]
    /\ store = {}
    /\ redis_ok = TRUE
    /\ wk = [w \in Workers |-> WkNew]
    /\ delivered = {}
    /\ written = {}

(***************************************************************************)
(* SpecCM: the registry under connects, disconnects and broadcasts.  The   *)
(* peers of this specification only listen: they send no inbound message.  *)
(***************************************************************************)
InitCM ==
    /\ InitConn
    /\ ws = [h \in Handles |-> WsNew(0)]
    /\ InitWorkers
    /\ InitNoRequest

NextCM ==
    \/ \E h \in Handles, c \in Clients : WsConnect(h, c)
    \/ \E h \in Handles : WsWelcome(h)
    \/ \E h \in Handles : WsReceive(h)
    \/ \E h \in Handles : Drop(h)
    \/ \E c \in Clients : BroadcastToClient(c, Msg("broadcast", nbc + 1))
    \/ BroadcastToAll(Msg("broadcast", nbc + 1))
    \/ BroadcastStep

SpecCM == InitCM /\ [][NextCM]_vars


(***************************************************************************)
(* SpecWS: the sessions with their inbound messages and replies.  Nothing  *)
(* in the repository calls a broadcast, so none runs here.                 *)
(***************************************************************************)
InitWS ==
    /\ InitConn
    /\ ws = [h \in Handles |-> WsNew(MaxInbound)]
    /\ InitWorkers
    /\ InitNoRequest

NextWS ==
    \/ \E h \in Handles, c \in Clients : WsConnect(h, c)
    \/ \E h \in Handles : WsWelcome(h)
    \/ \E h \in Handles : WsReceive(h)
    \/ \E h \in Handles : WsPong(h)
    \/ \E h \in Handles : WsQueued(h)
    \/ \E h \in Handles : WsResult(h)
    \/ \E h \in Handles : Drop(h)

SpecWS == InitWS /\ [][NextWS]_vars

(***************************************************************************)
(* SpecW: the gateway publishing, the workers, and the Redis server.       *)
(***************************************************************************)
InitW ==
    /\ InitConn
    /\ ws = [h \in Handles |-> WsNew(0)]
    /\ InitWorkers
    /\ InitNoRequest

WorkerStep(w) ==
    \/ XGroupCreate(w)
    \/ XReadGroup(w)
    \/ ProcessCodeAnalysis(w)
    \/ XAck(w)
    \/ Backoff(w)

NextW ==
    \/ \E code \in CodeSamples : Publish(code)
    \/ \E w \in Workers : WorkerStep(w)
    \/ \E w \in Workers : KeyboardInterrupt(w)
    \/ RedisDown
    \/ RedisUp

SpecW == InitW /\ [][NextW]_vars

(* SpecStore: the same, with the keys of the store reaching their time to  *)
(* live (an hour, against the second a worker takes for an entry)          *)
NextStore ==
    \/ NextW
    \/ \E r \in store : Expire(r)

SpecStore == InitW /\ [][NextStore]_vars


(* the workers keep running: each is a process of its own *)
FairSpecW == SpecW /\ \A w \in Workers : WF_vars(WorkerStep(w))

(***************************************************************************)
(* FairSpecLive: the Redis server always answers, worker 1 is never        *)
(* stopped, the other workers may be, and every worker that can take a     *)
(* step of its loop eventually takes it.                                   *)
(***************************************************************************)
LiveStep(w) ==
    \/ XGroupCreate(w)
    \/ XReadGroup(w)
    \/ ProcessCodeAnalysis(w)
    \/ XAck(w)

NextLive ==
    \/ \E code \in CodeSamples : Publish(code)
    \/ \E w \in Workers : LiveStep(w)
    \/ \E w \in Workers \ {1} : KeyboardInterrupt(w)

FairSpecLive ==
    InitW /\ [][NextLive]_vars /\ \A w \in Workers : WF_vars(LiveStep(w))

(***************************************************************************)
(* The HTTP endpoints of analysis.py.  db_ok: the commit of the database   *)
(* session succeeds.  The analysis ids of the realtime path are the        *)
(* positions of their entries in the stream, those of the file path are    *)
(* negative.                                                               *)
(***************************************************************************)
MaxFiles == 1
FileIds == {0 - n : n \in 1..MaxFiles}

(* analyze_code_realtime up to the xadd: the scan record is committed and   *)
(* the entry is published, or the exception is answered with a 500          *)
AnalyzeRealtimeBegin(code, db_ok) ==
    /\ gateway.pc # "published"
    /\ Len(stream) < MaxEntries
    /\ LET analysis_id == Len(stream) + 1
       IN  IF db_ok /\ redis_ok
           THEN /\ stream' = Append(stream, [analysis_id |-> analysis_id,
                                             code |-> code, language |-> "python"])
                /\ gateway' = [gateway EXCEPT !.pc = "published",
                                              !.analysis_id = analysis_id,
                                              !.code = code, !.found = 0]
           ELSE /\ gateway' = [gateway EXCEPT !.pc = "error",
                                              !.analysis_id = analysis_id,
                                              !.code = code, !.found = 0]
                /\ UNCHANGED stream
    /\ UNCHANGED <<group, store, redis_ok, wk, delivered, written>>
    /\ UNCHANGED <<request, results, uuids>>
    /\ UNCHANGED cmvars

(* analyze_code_realtime after the xadd: the detection, the findings saved, *)
(* the commit, and the completed response; or the rollback and a 500        *)
AnalyzeRealtimeEnd(db_ok) ==
    /\ gateway.pc = "published"
    /\ gateway' =
          IF db_ok
          THEN [gateway EXCEPT
                  !.pc = "completed",
                  !.found = Len(DetectFindings(gateway.code, "python", FALSE,
                                               NoClassifier))]
          ELSE [gateway EXCEPT !.pc = "error"]
    /\ UNCHANGED wvars
    /\ UNCHANGED <<request, results, uuids>>
    /\ UNCHANGED cmvars

(* analyze_file: the scan record, then setex analysis:{id} with status      *)
(* queued; nothing is published to the stream                               *)
AnalyzeFile(code, db_ok) ==
    /\ gateway.files < MaxFiles
    /\ db_ok /\ redis_ok
    /\ store' = SetEx(store, "analysis", 0 - (gateway.files + 1),
                      [status |-> "queued", code |-> code, language |-> "python"])
    /\ gateway' = [gateway EXCEPT !.files = @ + 1]
    /\ UNCHANGED <<stream, group, redis_ok, wk, delivered, written>>
    /\ UNCHANGED <<request, results, uuids>>
    /\ UNCHANGED cmvars

(* get_analysis_result: redis_client.get(f"analysis:{analysis_id}") *)
get_analysis_result(st, analysis_id, ok) ==
    IF ~ok THEN [status |-> "500"]
    ELSE IF \E r \in st : r.ns = "analysis" /\ r.id = analysis_id
    THEN (CHOOSE r \in st : r.ns = "analysis" /\ r.id = analysis_id).val
    ELSE [status |-> "404"]

GetAnalysisResult(analysis_id) ==
    /\ gateway' = [gateway EXCEPT
                     !.lookup = [id |-> analysis_id,
                                 response |-> get_analysis_result(store, analysis_id,
                                                                  redis_ok)]]
    /\ UNCHANGED wvars
    /\ UNCHANGED <<request, results, uuids>>
    /\ UNCHANGED cmvars

(***************************************************************************)
(* SpecApi: the endpoints, the workers, and the keys of the store reaching *)
(* their time to live; the Redis server answers and the database commits   *)
(* may fail.                                                               *)
(***************************************************************************)
NextApi ==
    \/ \E code \in CodeSamples, db_ok \in BOOLEAN : AnalyzeRealtimeBegin(code, db_ok)
    \/ \E db_ok \in BOOLEAN : AnalyzeRealtimeEnd(db_ok)
    \/ \E code \in CodeSamples, db_ok \in BOOLEAN : AnalyzeFile(code, db_ok)
    \/ \E id \in (1..MaxEntries) \cup FileIds : GetAnalysisResult(id)
    \/ \E w \in Workers : LiveStep(w)
    \/ \E r \in store : Expire(r)

SpecApi == InitW /\ [][NextApi]_vars

FairSpecApi == SpecApi /\ \A w \in Workers : WF_vars(LiveStep(w))

(***************************************************************************)
(* SpecPush: the workers and the sessions together, Redis reachable.       *)
(***************************************************************************)
NextPush ==
    \/ \E code \in CodeSamples : Publish(code)
    \/ \E w \in Workers : XGroupCreate(w)
    \/ \E w \in Workers : XReadGroup(w)
    \/ \E w \in Workers : ProcessCodeAnalysis(w)
    \/ \E w \in Workers : XAck(w)
    \/ \E h \in Handles, c \in Clients : WsConnect(h, c)
    \/ \E h \in Handles : WsWelcome(h)
    \/ \E h \in Handles : WsReceive(h)
    \/ \E h \in Handles : Drop(h)

SpecPush == InitW /\ [][NextPush]_vars

(***************************************************************************)
(* SpecDetect: detect_simple_vulnerabilities called, and called again, on  *)
(* one request, with one classifier snapshot.                              *)
(***************************************************************************)
MaxLines == 3
MaxRuns == 2

DetectLines ==
    { <<"x">>,
      <<"cursor.execute(", "x">>,
      <<"cursor.execute(", "\"abc123\"", " + ", "x">>,
      <<" ", "select * from t", " + ", "x", " ">>,
      <<"password = ", "\"abc123\"">>,
      <<"innerHTML =", "eval(", "PASSWORD = ", "\"abc123\"", " + ", "SELECT * FROM t">> }

Codes == UNION {[1..n -> DetectLines] : n \in 1..MaxLines}

(* output rows of the classifier: the score of each label, in percent *)
SqlScores == [i \in 1..10 |-> IF i = 1 THEN 90 ELSE 0]
MixedScores ==
    [i \in 1..10 |-> CASE i = 1 -> 90 [] i = 2 -> 61 [] i = 3 -> 60
                       [] i = 4 -> 70 [] OTHER -> 10]
ElevenScores == [i \in 1..11 |-> IF i \in {1, 11} THEN 95 ELSE 0]

Classifiers ==
    {NoClassifier, [loaded |-> TRUE, raises |-> TRUE, scores |-> SqlScores]}
    \cup {[loaded |-> TRUE, raises |-> FALSE, scores |-> sc] :
             sc \in {SqlScores, MixedScores, ElevenScores}}

(* without the ML service (ML_AVAILABLE false) there is no classifier *)
Requests ==
    [code : Codes, language : {"python"}, ml_available : {FALSE},
     clf : {NoClassifier}]
    \cup [code : Codes, language : {"python"}, ml_available : {TRUE},
          clf : Classifiers]

InitDetect ==
    /\ InitConn
    /\ ws = [h \in Handles |-> WsNew(0)]
    /\ InitWorkers
    /\ request \in Requests
    /\ results = <<>>
    /\ uuids = 0
    /\ gateway = GwIdle

(* vulnerabilities_list = detect_simple_vulnerabilities(code, language) *)
DetectRun ==
    /\ Len(results) < MaxRuns
    /\ LET r == Detect(request.code, request.language, request.ml_available,
                       request.clf, uuids)
       IN  /\ results' = Append(results, r)
           /\ uuids' = uuids + Len(r)
    /\ UNCHANGED <<request, gateway>>
    /\ UNCHANGED <<cmvars, wvars>>

NextDetect == DetectRun

SpecDetect == InitDetect /\ [][NextDetect]_vars

(***************************************************************************)
(* Properties.                                                             *)
(***************************************************************************)
Range(f) == {f[i] : i \in DOMAIN f}
Registered(c) == IF Has(active_connections, c) THEN Get(active_connections, c) ELSE {}
PendingIds == {e.id : e \in group.pel}
AckedIds == (1..group.last_delivered) \ PendingIds
LoopPcs == {"read", "process", "ack", "sleep"}

(* C1: when broadcast_to_client ends on the two handles h1, h2 that were    *)
(* registered for the client throughout, h1 not having received the message *)
(* (its send failed) and h2 being alive, then h2 is the one handle left     *)
(* registered for the client and h2 has received the message, whichever of  *)
(* the two was iterated first.                                              *)
C1_FailedSendIsolated ==
    [][\A h1, h2 \in Handles :
         ( /\ h1 # h2
           /\ bc.pc = "sending" /\ bc'.pc = "done" /\ ~bc.all
           /\ bc.start = {h1, h2}
           /\ Registered(bc.cid) = {h1, h2}
           /\ bc.msg \notin Range(outbox'[h1])
           /\ alive[h2] )
         => ( /\ Has(active_connections', bc.cid)
              /\ Get(active_connections', bc.cid) = {h2}
              /\ bc.msg \in Range(outbox'[h2]) )]_vars

C1_Witness ==
    /\ bc.pc = "done" /\ ~bc.all
    /\ Cardinality(bc.start) = 2
    /\ Cardinality(bc.disconnected) = 1
    /\ Registered(bc.cid) = bc.start \ bc.disconnected
    /\ \A h \in Registered(bc.cid) : bc.msg \in Range(outbox[h])
    /\ \A h \in bc.disconnected : bc.msg \notin Range(outbox[h])

(* C2: a broadcast never ends in an exception, and when it ends every handle *)
(* that was registered when its loop started and still is has had a send.    *)
C2_BroadcastSurvivesInterleaving ==
    /\ bc.pc # "crashed"
    /\ bc.pc = "done" => (bc.start \cap Registered(bc.cid)) \subseteq bc.seen

(* C3: no client_id of the registry maps to an empty set of handles. *)
C3_NoEmptyHandleSet ==
    \A i \in DOMAIN active_connections : active_connections[i].v # {}

(* C4: when process_code_analysis fails on an entry of a batch, the worker  *)
(* leaves that entry pending, stays in its loop, and goes on with the rest  *)
(* of the batch.                                                            *)
C4_BatchContinuesAfterFailure ==
    [][\A w \in Workers :
         ( /\ wk[w].pc = "process"
           /\ wk'[w].pc \notin {"process", "ack"}
           /\ wk'[w].exc # "KeyboardInterrupt" )
         => ( /\ Head(wk[w].batch) \in {e.id : e \in group'.pel}
              /\ wk'[w].pc \in LoopPcs
              /\ wk'[w].batch = Tail(wk[w].batch) )]_vars

(* C5: every acknowledged entry (delivered, no longer pending) has had its  *)
(* result written under its analysis_id by a worker.                        *)
C5_AckOnlyAfterStore ==
    \A id \in AckedIds : \E r \in written : r.id = stream[id].analysis_id

C5_Witness ==
    /\ AckedIds # {}
    /\ \E e \in group.pel :
          /\ wk[e.consumer].pc = "sleep"
          /\ \A r \in written : r.id # stream[e.id].analysis_id

(* C6: an entry that is pending for a consumer that no longer holds it (the *)
(* consumer stopped, or failed on its batch) is eventually delivered to     *)
(* another consumer of the group, unless no other consumer is left running. *)
C6_PendingRedelivered ==
    \A id \in 1..MaxEntries, a \in Workers :
        ( /\ [id |-> id, consumer |-> a] \in group.pel
          /\ id \notin Range(wk[a].batch) )
        ~> \/ \E b \in Workers \ {a} : [id |-> id, consumer |-> b] \in delivered
           \/ \A b \in Workers \ {a} : wk[b].pc \in {"stopped", "dead"}

(* C7: every entry up to the group's last delivered id has been delivered   *)
(* to exactly one worker and no later entry to any; no entry is processed   *)
(* by two workers; a worker only holds entries delivered to it.             *)
C7_ExactlyOneConsumer ==
    /\ \A id \in 1..Len(stream) :
          Cardinality({w \in Workers : [id |-> id, consumer |-> w] \in delivered})
            = IF id <= group.last_delivered THEN 1 ELSE 0
    /\ \A r1, r2 \in written : r1.id = r2.id => r1.by = r2.by
    /\ \A w \in Workers : \A id \in Range(wk[w].batch) :
          [id |-> id, consumer |-> w] \in delivered

C7_Witness ==
    /\ \E d1, d2 \in delivered : d1.consumer # d2.consumer
    /\ \E r1, r2 \in written : r1.by # r2.by
    /\ group.last_delivered = MaxEntries

(* C8: a worker leaves its loop only on the stop signal; a Redis error in   *)
(* the read, the store write or the acknowledgment sends it to the backoff, *)
(* and from the backoff it goes to the read.                                *)
C8_LoopOnlyEndsOnStop ==
    [][\A w \in Workers :
         /\ (wk[w].pc \in LoopPcs /\ wk'[w].pc \notin LoopPcs)
               => (wk'[w].pc = "stopped" /\ wk'[w].exc = "KeyboardInterrupt")
         /\ ( /\ wk[w].pc \in {"read", "process", "ack"}
              /\ ~redis_ok
              /\ wk'[w] # wk[w]
              /\ wk'[w].exc # "KeyboardInterrupt" )
               => (wk'[w].pc = "sleep" /\ wk'[w].exc = "ConnectionError")
         /\ (wk[w].pc = "sleep" /\ wk'[w].pc # "sleep")
               => wk'[w].pc \in {"read", "stopped"}]_vars

C8_Witness ==
    \E w \in Workers :
        /\ wk[w].pc = "sleep"
        /\ wk[w].exc = "ConnectionError"
        /\ \E e \in group.pel : e.consumer = w
        /\ \E r \in written : r.by = w

(* C9: the result stored for an entry is completed and reports the number   *)
(* of findings detect_simple_vulnerabilities yields on the entry's code.    *)
C9_OutcomeReportsFindings ==
    \A r \in store :
        r.ns = "result" =>
            /\ r.val.status = "completed"
            /\ r.val.vulnerabilities_found =
                 Len(DetectFindings(stream[r.id].code, stream[r.id].language,
                                    FALSE, NoClassifier))

(* C10: when a worker completes an analysis while every client has a live   *)
(* registered session, the outcome is being pushed to, or has reached, the  *)
(* sessions of some client.                                                 *)
LiveSessions(c) == {h \in Registered(c) : alive[h]}
C10_OutcomePushed ==
    [][\A r \in written' \ written :
         (\A c \in Clients : LiveSessions(c) # {})
         => \E c \in Clients :
               \/ bc'.pc = "sending" /\ bc'.cid = c /\ bc'.msg.id = r.id
               \/ \A h \in LiveSessions(c) :
                     \E i \in DOMAIN outbox'[h] :
                        /\ outbox'[h][i].type \in {"analysis_result", "broadcast"}
                        /\ outbox'[h][i].id = r.id]_vars

(***************************************************************************)
(* Properties of detect_simple_vulnerabilities.                            *)
(***************************************************************************)
Unnumbered(r) == [i \in DOMAIN r |-> [r[i] EXCEPT !.id = 0]]
ModelSourced(v) == v.message.text = "ML Model detected"
OfCategory(r, cat) == SelectSeq(r, LAMBDA v : v.category = cat)
ExpectedPatternFindings == PatternFindings(request.code, 1)
(* the classifier output has SQL Injection at 0.9 and the pattern engine has *)
(* an SQL Injection finding on the request                                  *)
SqlScenario ==
    /\ request.ml_available
    /\ \E i \in DOMAIN Predict(request.clf, 60) :
          /\ Predict(request.clf, 60)[i].category = "SQL Injection"
          /\ Predict(request.clf, 60)[i].confidence = 90
    /\ OfCategory(ExpectedPatternFindings, "SQL Injection") # <<>>

(* C11, as stated: in the scenario the result of detect holds exactly one   *)
(* SQL Injection finding, and it is pattern-sourced.                        *)
C11_ExactlyOneSql ==
    \A k \in DOMAIN results :
        SqlScenario =>
            /\ Len(OfCategory(results[k], "SQL Injection")) = 1
            /\ ~ModelSourced(OfCategory(results[k], "SQL Injection")[1])

(* C11, amended: in the scenario the SQL Injection findings of the result   *)
(* are exactly the pattern-sourced ones, one per matching pattern and line, *)
(* none model-sourced; and in every result no model-sourced finding has the *)
(* category of a pattern-sourced finding.                                   *)
C11_ModelDuplicateDropped ==
    \A k \in DOMAIN results :
        /\ SqlScenario =>
              OfCategory(Unnumbered(results[k]), "SQL Injection")
                = OfCategory(ExpectedPatternFindings, "SQL Injection")
        /\ \A i, j \in DOMAIN results[k] :
              (ModelSourced(results[k][i]) /\ ~ModelSourced(results[k][j]))
                => results[k][i].category # results[k][j].category

C11_Witness ==
    /\ results # <<>>
    /\ SqlScenario
    /\ Len(OfCategory(results[1], "SQL Injection")) = 2
    /\ \E i \in DOMAIN results[1] : ModelSourced(results[1][i])

(* C12: in every result of detect the pattern-sourced findings come first,  *)
(* in non-decreasing line-number order, and the model-sourced findings come *)
(* after all of them.                                                       *)
C12_PatternFirstInLineOrder ==
    \A k \in DOMAIN results :
        \A i, j \in DOMAIN results[k] :
            i < j =>
                /\ ModelSourced(results[k][i]) => ModelSourced(results[k][j])
                /\ (~ModelSourced(results[k][i]) /\ ~ModelSourced(results[k][j]))
                      => results[k][i].line_number <= results[k][j].line_number

C12_Witness ==
    /\ results # <<>>
    /\ \E i, j \in DOMAIN results[1] :
          /\ ~ModelSourced(results[1][i]) /\ ~ModelSourced(results[1][j])
          /\ results[1][i].line_number < results[1][j].line_number
    /\ \E i \in DOMAIN results[1] : ModelSourced(results[1][i])

(* C13: every result of detect starts with the findings of the pattern      *)
(* loops alone, and is exactly those when the ML service could not be       *)
(* imported, the model is not loaded, inference raises, or the output row   *)
(* has a score above the threshold for a label that does not exist.         *)
ClassifierFailed ==
    \/ ~request.ml_available
    \/ ~request.clf.loaded
    \/ request.clf.raises
    \/ \E i \in DOMAIN request.clf.scores :
          i > Len(vulnerability_labels) /\ request.clf.scores[i] > 60
C13_ClassifierFailureNotFatal ==
    \A k \in DOMAIN results :
        /\ Len(results[k]) >= Len(ExpectedPatternFindings)
        /\ SubSeq(Unnumbered(results[k]), 1, Len(ExpectedPatternFindings))
             = ExpectedPatternFindings
        /\ ClassifierFailed => Unnumbered(results[k]) = ExpectedPatternFindings

C13_Witness ==
    /\ results # <<>>
    /\ request.ml_available /\ request.clf.loaded /\ ~request.clf.raises
    /\ Len(request.clf.scores) > Len(vulnerability_labels)
    /\ ClassifierFailed
    /\ results[1] # <<>>

(* C14: two calls of detect on the same request with the same classifier    *)
(* snapshot return the same sequence of findings, every field included.     *)
C14_RerunIdentical ==
    Len(results) >= 2 => results[2] = results[1]

(* C20: for every line k of the request that holds a query-invocation       *)
(* marker and the concatenation operator, the result of detect has a        *)
(* finding SQL Injection, CRITICAL, line_number k, confidence 0.75.         *)
QueryMarkerAtoms == {"cursor.execute(", "SELECT * FROM t", "select * from t"}
HasMarkerAndConcat(line) ==
    /\ \E i \in DOMAIN line : line[i] \in QueryMarkerAtoms
    /\ \E i \in DOMAIN line : line[i] = " + "
C20_SqlFindingAtLine ==
    \A n \in DOMAIN results : \A k \in DOMAIN request.code :
        HasMarkerAndConcat(request.code[k]) =>
            \E i \in DOMAIN results[n] :
                /\ results[n][i].category = "SQL Injection"
                /\ results[n][i].severity = "CRITICAL"
                /\ results[n][i].line_number = k
                /\ results[n][i].confidence_score = 75

C20_Witness ==
    /\ results # <<>>
    /\ Len(request.code) = 2
    /\ ~HasMarkerAndConcat(request.code[1])
    /\ HasMarkerAndConcat(request.code[2])
    /\ \E i \in DOMAIN results[1] :
          results[1][i].category = "SQL Injection" /\ results[1][i].line_number = 2

(* C15: when broadcast_to_all ends, normally or not, no client of its       *)
(* snapshot of the keys is left without its broadcast while it has          *)
(* registered sessions.                                                     *)
C15_FanOutIndependent ==
    [][( /\ bc.all
         /\ bc.pc = "sending"
         /\ bc'.pc \in {"done", "crashed"} )
       => \A i \in DOMAIN bc.keys :
             IF Has(active_connections', bc.keys[i])
             THEN Get(active_connections', bc.keys[i]) = {}
             ELSE TRUE]_vars

(* C16: a step in which a session's direct send succeeds leaves the         *)
(* registry unchanged; and a handle leaves the registry only in a step in   *)
(* which its handler ends (manager.disconnect) or in the step of a          *)
(* broadcast that prunes it after its send to it failed.                    *)
RegisteredIn(d, c) == IF Has(d, c) THEN Get(d, c) ELSE {}
C16_DirectSendKeepsRegistry ==
    [][\A h \in Handles :
         /\ (ws[h].pc = "welcome" /\ ws'[h].pc = "receive")
               => active_connections' = active_connections
         /\ \A c \in Clients :
               ( /\ h \in RegisteredIn(active_connections, c)
                 /\ h \notin RegisteredIn(active_connections', c) )
               => \/ ws[h].pc # "ended" /\ ws'[h].pc = "ended"
                  \/ /\ bc.pc = "sending"
                     /\ ~alive[h]
                     /\ h \in bc.disconnected \cup {bc.cur}]_vars

C16_Witness ==
    \E h1, h2 \in Handles :
        /\ h1 # h2
        /\ ws[h1].pc = "receive"
        /\ Msg("connection", ws[h1].cid) \in Range(outbox[h1])
        /\ h1 \in Registered(ws[h1].cid)
        /\ ws[h2].pc \in {"welcome", "receive"}
        /\ h2 \notin Registered(ws[h2].cid)
        /\ bc.pc = "done" /\ h2 \in bc.disconnected

(* C17: the handle of a session whose handler has ended is registered       *)
(* under no client_id.                                                      *)
C17_EndedNotRegistered ==
    \A h \in Handles :
        ws[h].pc = "ended" => \A c \in Clients : h \notin Registered(c)

C17_Witness ==
    \E h1, h2 \in Handles :
        /\ h1 # h2
        /\ ws[h1].pc = "ended" /\ ws[h2].pc = "receive"
        /\ ws[h1].cid = ws[h2].cid
        /\ Registered(ws[h1].cid) = {h2}
        /\ outbox[h1] # <<>>
        /\ outbox[h1][Len(outbox[h1])].type = "analysis_queued"

(* C18: what a session has been sent starts with the welcome; every         *)
(* analysis_result follows the analysis_queued of the same analysis_id      *)
(* directly; an analysis_queued is followed directly by its                 *)
(* analysis_result, or is the last message while the handler is still in    *)
(* the analyze branch for that id or has ended.                             *)
C18_WelcomeThenQueuedThenResult ==
    \A h \in Handles :
        LET ob == outbox[h]
        IN  /\ ob # <<>> => ob[1] = Msg("connection", ws[h].cid)
            /\ \A i \in DOMAIN ob :
                  /\ ob[i].type = "connection" => i = 1
                  /\ ob[i].type = "analysis_result" =>
                        i > 1 /\ ob[i - 1] = Msg("analysis_queued", ob[i].id)
                  /\ ob[i].type = "analysis_queued" =>
                        IF i < Len(ob)
                        THEN ob[i + 1] = Msg("analysis_result", ob[i].id)
                        ELSE \/ ws[h].pc = "ended"
                             \/ ws[h].pc = "sleep" /\ ws[h].aid = ob[i].id
            /\ ws[h].pc = "sleep" =>
                  ob # <<>> /\ ob[Len(ob)] = Msg("analysis_queued", ws[h].aid)

C18_Witness ==
    \E h \in Handles :
        /\ Len(outbox[h]) = 5
        /\ outbox[h][2] = Msg("analysis_queued", 2)
        /\ outbox[h][3] = Msg("analysis_result", 2)
        /\ outbox[h][4] = Msg("analysis_queued", 1)
        /\ outbox[h][5] = Msg("analysis_result", 1)

(* C19: a worker that starts while the Redis server answers goes on to its  *)
(* read loop whether or not the group exists; creating a group that exists  *)
(* leaves its last delivered id and its pending list as they were, and a    *)
(* new group starts at position 0 with nothing pending.                     *)
C19_GroupCreateIdempotent ==
    [][\A w \in Workers :
         (wk[w].pc = "start" /\ wk'[w].pc # "start" /\ redis_ok)
         => /\ wk'[w].pc = "read"
            /\ group'.exists
            /\ IF group.exists
               THEN group' = group
               ELSE group'.last_delivered = 0 /\ group'.pel = {}]_vars

C19_Witness ==
    \E w \in Workers :
        /\ wk[w].pc = "read"
        /\ wk[w].exc = "BUSYGROUP"
        /\ group.last_delivered > 0
        /\ group.pel # {}
        /\ \A v \in Workers : wk[v].pc \in LoopPcs

(* C21: in every result of detect, the pattern-sourced findings of a line   *)
(* in a family are as many as the patterns of the family that occur in the  *)
(* line (in any letter case) while the family's secondary condition holds   *)
(* on the line: '+' for SQL, nothing more for XSS, '=' or ':' and a quote   *)
(* for secrets.  A line 3 that reads password = "abc123" has exactly one    *)
(* finding: HIGH, Hardcoded Secrets, confidence 0.82, line_number 3.        *)
Occurring(patterns, line) ==
    Cardinality({i \in DOMAIN patterns : LowIn(patterns[i], line)})
FoundAt(r, k, cat) ==
    Cardinality({i \in DOMAIN r : /\ ~ModelSourced(r[i])
                                  /\ r[i].line_number = k
                                  /\ r[i].category = cat})
C21_OneFindingPerPattern ==
    \A n \in DOMAIN results : \A k \in DOMAIN request.code :
        LET line == request.code[k]
            r == results[n]
        IN  /\ FoundAt(r, k, "SQL Injection") =
                 IF CharIn("+", line) THEN Occurring(sql_patterns, line) ELSE 0
            /\ FoundAt(r, k, "Cross-Site Scripting (XSS)") =
                 Occurring(xss_patterns, line)
            /\ FoundAt(r, k, "Hardcoded Secrets") =
                 IF /\ CharIn("=", line) \/ CharIn(":", line)
                    /\ CharIn("\"", line) \/ CharIn("'", line)
                 THEN Occurring(secret_patterns, line) ELSE 0
            /\ (k = 3 /\ line = <<"password = ", "\"abc123\"">>) =>
                  \E i \in DOMAIN r :
                     /\ ~ModelSourced(r[i])
                     /\ r[i].line_number = 3
                     /\ r[i].severity = "HIGH"
                     /\ r[i].category = "Hardcoded Secrets"
                     /\ r[i].confidence_score = 82
                     /\ \A j \in DOMAIN r :
                           (~ModelSourced(r[j]) /\ r[j].line_number = 3) => j = i

C21_Witness ==
    /\ results # <<>>
    /\ Len(request.code) = 3
    /\ request.code[3] = <<"password = ", "\"abc123\"">>
    /\ FoundAt(results[1], 3, "Hardcoded Secrets") = 1
    /\ FoundAt(results[1], 2, "SQL Injection") = 2
    /\ FoundAt(results[1], 1, "SQL Injection") = 0
    /\ \E i \in DOMAIN request.code[1] : request.code[1][i] = "cursor.execute("

(* C22: every entry published to the stream is eventually processed (its    *)
(* result written) and acknowledged, and once the last entry is published   *)
(* the pending list of the group eventually becomes empty.                  *)
C22_EveryEntryAcked ==
    /\ \A id \in 1..MaxEntries :
          (Len(stream) >= id)
          ~> (id \in AckedIds /\ \E r \in written : r.id = stream[id].analysis_id)
    /\ (Len(stream) = MaxEntries)
          ~> (group.last_delivered = MaxEntries /\ group.pel = {})

(* C23: when analyze_code_realtime has answered a request with an error, no *)
(* entry carrying the analysis_id of that request is on the stream.         *)
C23_NoEntryOnError ==
    gateway.pc = "error" =>
        \A i \in DOMAIN stream : stream[i].analysis_id # gateway.analysis_id

(* C24: a result lookup made while the completed outcome a worker stored    *)
(* for its analysis_id is in the store returns that outcome; and an         *)
(* analysis stored as queued by analyze_file eventually has a completed     *)
(* outcome under the same key.                                              *)
C24_LookupReturnsOutcome ==
    /\ [][gateway'.lookup # gateway.lookup =>
            \A r \in store :
                (r.ns = "result" /\ r.id = gateway'.lookup.id /\ redis_ok)
                => gateway'.lookup.response = r.val]_vars
    /\ \A id \in FileIds :
          (\E r \in store : r.ns = "analysis" /\ r.id = id /\ r.val.status = "queued")
          ~> (\E r \in store : r.ns = "analysis" /\ r.id = id
                                /\ r.val.status = "completed")

====
